---- MODULE Spec2Model ----
(***************************************************************************)
(* Model of the comparison driver of diff (src/src/diff.c): the operand    *)
(* loop of main and compare_files, the function that resolves the two      *)
(* sides of a pair and decides how they are compared.  The directory       *)
(* walker diff_dirs and the content engine diff_2_files are collaborators  *)
(* whose code is outside src/; they are modelled at their interface.       *)
(***************************************************************************)
EXTENDS Integers, Sequences, FiniteSets, TLC

(* ------------------------------ bounds --------------------------------- *)

\* Largest number of operands left on the command line after the options.
MaxOperands == 2
\* Largest number of name pairs the directory walker hands to
\* compare_files in one run, over all directories and levels.
MaxNested == 1

(* ---------------------------- constants -------------------------------- *)

EXIT_SUCCESS == 0
EXIT_FAILURE == 1
EXIT_TROUBLE == 2

NONEXISTENT == -1
UNOPENED == -2
STDIN_FILENO == 0

ENOENT == 2
EBADF == 9
EACCES == 13
ESPIPE == 29

ERRNO_ENCODE(e) == -3 - e
ERRNO_DECODE(desc) == -3 - desc

\* A null char pointer; file names are sequences of path components.
NULL == <<>>

Max(a, b) == IF a < b THEN b ELSE a

(* ----------------------- the file system seen by stat ------------------ *)

\* struct stat after memset (..., 0, ...).
ZeroStat == [type |-> "none", perm |-> 0, size |-> 0, ino |-> 0, mtime |-> 0]

\* What a name can resolve to.  perm is st_mode & (S_IRWXU | S_IRWXG |
\* S_IRWXO) reduced to zero / nonzero.  ino stands for st_dev and st_ino;
\* inode numbers are drawn relative to the other side of the pair (see
\* StatResults), so they are left open here.
Kinds ==
  { [type |-> "reg",  perm |-> 1, size |-> 1],
    [type |-> "reg",  perm |-> 1, size |-> 2],
    [type |-> "reg",  perm |-> 0, size |-> 0],
    [type |-> "dir",  perm |-> 1, size |-> 1],
    [type |-> "lnk",  perm |-> 1, size |-> 1],
    [type |-> "fifo", perm |-> 1, size |-> 0] }

MkStat(k, ino, mtime) ==
  [type |-> k.type, perm |-> k.perm, size |-> k.size, ino |-> ino,
   mtime |-> mtime]

\* errno values a failing stat or lstat of a name leaves behind.
StatErrnos == {ENOENT, EACCES}

\* Offsets lseek (STDIN_FILENO, 0, SEEK_CUR) can report.
SeekPositions == {0, 1}

\* mtime written by set_mtime_to_now.
Now == 2

S_ISREG(st) == st.type = "reg"
S_ISDIR(st) == st.type = "dir"
S_ISLNK(st) == st.type = "lnk"

\* same_file: both names resolve to one device and inode.
same_file(s, t) == s.ino = t.ino

\* same_file_attributes: type and mode, size and times agree.
same_file_attributes(s, t) ==
  /\ s.type = t.type /\ s.perm = t.perm
  /\ s.size = t.size /\ s.mtime = t.mtime

\* file_name_cmp (..) == 0.
file_name_cmp_eq(a, b) == a = b

\* file_name_concat (dir, name, NULL) and find_dir_file_pathname (dir, name).
file_name_concat(dir, name) == dir \o name

\* last_component: the part of a name after its last slash.
last_component(name) == IF name = NULL THEN NULL ELSE <<name[Len(name)]>>

\* file_type: the words the type-mismatch message uses for a struct stat.
file_type(st) ==
  CASE st.type = "reg" /\ st.size = 0 -> "regular empty file"
    [] st.type = "reg" /\ st.size # 0 -> "regular file"
    [] st.type = "dir" -> "directory"
    [] st.type = "lnk" -> "symbolic link"
    [] st.type = "fifo" -> "fifo"
    [] OTHER -> "weird file"

(* ------------------------------ state ---------------------------------- *)

(* The options are fixed by the command line before the first comparison    *)
(* starts and never change afterwards.  Each field of opt is the set of     *)
(* values the option can still have: the whole range until the value of     *)
(* the option first decides what the program does, one value from then on.  *)
(* Drawing an option when it first makes a difference gives the same runs   *)
(* as drawing every option while the command line is decoded.               *)

VARIABLES
  cmd,          \* the command line: --from-file, --to-file, operands
  mainpc,       \* position of main: "start", "loop", "flush", "exit",
                \* or "returned" (from the option loop)
  aborted,      \* "" or the reason the run ended in fatal / try_help
  opt,          \* the options compare_files reads (see above)
  from_file, to_file,
  argv,         \* the operands argv[optind ..] as getopt_long leaves them
  optind,       \* number of operands consumed so far
  exit_status,
  stdin_open,   \* descriptor STDIN_FILENO is open
  stack,        \* active compare_files frames, innermost last
  nested,       \* history: number of nested compare_files calls so far
  calls,        \* history: <<name0, name1>> of each root-level call
  rootrets,     \* history: the greatest value a root-level call returned
  flushes       \* history: number of print_message_queue calls

vars == <<cmd, mainpc, aborted, opt, from_file, to_file, argv, optind,
          exit_status, stdin_open, stack, nested, calls, rootrets, flushes>>

\* Operands a command line can name; "-" is standard input.
Operands == {<<"a">>, <<"b">>, <<"-">>}

\* Child base names handed out by the directory lister, in sorted order.
ChildNames == <<"n1", "n2", "n3", "n4">>
ChildName(i) == <<ChildNames[i]>>

\* -L operands.
Labels == {<<NULL, NULL>>, <<<<"L0">>, NULL>>, <<<<"L0">>, <<"L1">>>>}

(* ------------------- the flags main derives (740-750) ------------------- *)

\* group_format[UNCHANGED] and line_format[UNCHANGED] after the defaults of
\* lines 723-738: an option value, or the default when the option is absent.
GroupFormatUnchanged(gfu) == IF gfu = "unset" THEN "%=" ELSE gfu
LineFormatUnchanged(lfu) == IF lfu = "unset" THEN "%l\n" ELSE lfu

no_diff_means_no_output_of(style, gfu, lfu, suppress_common_lines) ==
  IF style = "OUTPUT_IFDEF"
  THEN \/ GroupFormatUnchanged(gfu) = ""
       \/ (GroupFormatUnchanged(gfu) = "%="
           /\ LineFormatUnchanged(lfu) = "")
  ELSE (style # "OUTPUT_SDIFF") \/ suppress_common_lines

files_can_be_treated_as_binary_of(brief, binary, ignore_blank_lines, ignore_case, strip_trailing_cr, ignore_regexps, ignore_white_space) ==
  /\ brief /\ binary
  /\ ~(ignore_blank_lines \/ ignore_case \/ strip_trailing_cr
       \/ (ignore_regexps \/ ignore_white_space))

\* The output styles that matter to the comparison driver; every other
\* style behaves like OUTPUT_NORMAL there.
OUTPUT_STYLES == {"OUTPUT_NORMAL", "OUTPUT_SDIFF", "OUTPUT_IFDEF"}

\* <<output_style, no_diff_means_no_output>> for every choice of the style
\* options.  The format options force OUTPUT_IFDEF (specify_style).
StyleSettings ==
  { [output_style |-> st,
     no_diff_means_no_output |->
        no_diff_means_no_output_of(st, gfu, lfu, sup)] :
      st \in OUTPUT_STYLES, gfu \in {"unset", "", "%=", "%<"},
      lfu \in {"unset", "", "%L"}, sup \in BOOLEAN }

BinarySettings ==
  { files_can_be_treated_as_binary_of(q, b, i1, i2, i3, i4, i5) :
      q \in BOOLEAN, b \in BOOLEAN, i1 \in BOOLEAN, i2 \in BOOLEAN,
      i3 \in BOOLEAN, i4 \in BOOLEAN, i5 \in BOOLEAN }

\* Every option still open: the state of opt when main starts.
AllOptions ==
  [recursive |-> BOOLEAN, new_file |-> BOOLEAN,
   unidirectional_new_file |-> BOOLEAN,
   report_identical_files |-> BOOLEAN,
   no_dereference_symlinks |-> BOOLEAN,
   style |-> StyleSettings,
   files_can_be_treated_as_binary |-> BinarySettings,
   file_label |-> Labels]

(* ------------------------- compare_files frames ------------------------ *)

Msg(kind, a, b, ta, tb, e) ==
  [kind |-> kind, a |-> a, b |-> b, ta |-> ta, tb |-> tb, e |-> e]

\* perror_with_name (name) with errno = e.
Perror(name, e) == Msg("perror", name, NULL, "", "", e)

Ev(op, f) == [op |-> op, f |-> f]

NewFrame(hasparent, n0, n1) ==
  [pc |-> "enter", parent |-> hasparent, name0 |-> n0, name1 |-> n1,
   arg |-> <<n0, n1>>,
   file |-> [f \in {0, 1} |-> [name |-> NULL, desc |-> 0, stat |-> ZeroStat]],
   status |-> EXIT_SUCCESS, same_files |-> FALSE, rule |-> "",
   link_value |-> <<NULL, NULL>>, at1148 |-> <<>>, at1204 |-> <<>>,
   msgs |-> <<>>, io |-> <<>>, val |-> EXIT_SUCCESS, nkids |-> 0]

Top == stack[Len(stack)]
Running == stack # <<>>
\* The comparison PARENT points to: the frame below the innermost one.
Parent == stack[Len(stack) - 1]

DIR_P(fr, f) == S_ISDIR(fr.file[f].stat)

\* A step of the innermost compare_files frame that leaves main alone;
\* sin tells whether standard input is open afterwards.
StepIO(fr, o, sin) ==
  /\ stack' = [stack EXCEPT ![Len(stack)] = fr]
  /\ opt' = o
  /\ stdin_open' = sin
  /\ UNCHANGED <<cmd, mainpc, aborted, from_file, to_file, argv,
                  optind, exit_status, calls, rootrets, flushes, nested>>

Step(fr, o) == StepIO(fr, o, stdin_open)

\* fatal, pfatal_with_name and try_help: the process exits with
\* EXIT_TROUBLE from wherever it is.  A null pointer dereference ends the
\* run as well ("crash").
Abort(reason, o) ==
  /\ mainpc' = "exit"
  /\ aborted' = reason
  /\ exit_status' = EXIT_TROUBLE
  /\ stack' = <<>>
  /\ opt' = o
  /\ UNCHANGED <<cmd, from_file, to_file, argv, optind,
                  stdin_open, calls, rootrets, flushes, nested>>

Emit(fr, m) == [fr EXCEPT !.msgs = Append(@, m)]
Did(fr, e) == [fr EXCEPT !.io = Append(@, e)]

OnlyIn(dir, name) == Msg("only_in", dir, name, "", "", 0)

(* ---- lines 1362-1380: the end of compare_files ---- *)

\* file_label[f] ? file_label[f] : cmp.file[f].name
LabelOrName(fr, labels, f) ==
  IF labels[f + 1] # NULL THEN labels[f + 1] ELSE fr.file[f].name

\* A test that takes EXIT_FAILURE for success as well.
NoTrouble(fr) == fr.status # EXIT_TROUBLE

\* Line 1365: status == EXIT_SUCCESS
Succeeded(fr) == fr.status = EXIT_SUCCESS

\* Lines 1365-1375.  report_identical_files decides something only when
\* !DIR_P (0) holds, file_label only when the report is printed.
FinishIO(fr, o, sin) ==
  IF Succeeded(fr)
  THEN IF DIR_P(fr, 0)
       THEN StepIO([fr EXCEPT !.pc = "done"], o, sin)
       ELSE \E s \in o.report_identical_files :
              LET o1 == [o EXCEPT !.report_identical_files = {s}] IN
              IF s
              THEN \E l \in o1.file_label :
                     StepIO([Emit(fr, Msg("identical",
                                          LabelOrName(fr, l, 0),
                                          LabelOrName(fr, l, 1), "", "", 0))
                               EXCEPT !.pc = "done"],
                            [o1 EXCEPT !.file_label = {l}], sin)
              ELSE StepIO([fr EXCEPT !.pc = "done"], o1, sin)
  ELSE StepIO([Did(fr, Ev("fflush", 0)) EXCEPT !.pc = "done"], o, sin)

Finish(fr, o) == FinishIO(fr, o, stdin_open)

(* ---- lines 1058-1111: entry ---- *)

\* The directory of the side the name is missing on.
OnlyInOtherDir(fr, par) == par.file[IF fr.name0 = NULL THEN 0 ELSE 1].name

\* parent->file[!name0].name
OnlyInDir(fr, par) == par.file[IF fr.name0 = NULL THEN 1 ELSE 0].name

\* Lines 1070-1078: a name that exists in one directory only.  The frame
\* returns at once, without reaching the end of the function.
EarlyOnlyIn(fr, o) ==
  IF ~fr.parent
  THEN Abort("crash", o)
  ELSE Step([Emit(fr, OnlyIn(OnlyInDir(fr, Parent),
                             IF fr.name0 # NULL THEN fr.name0 ELSE fr.name1))
               EXCEPT !.status = EXIT_FAILURE, !.rule = "early",
                      !.pc = "done"], o)

\* Lines 1081-1111: descriptor markers and full names.
Named(fr) ==
  LET n0 == IF fr.name0 = NULL THEN fr.name1 ELSE fr.name0
      n1 == IF fr.name1 = NULL THEN fr.name0 ELSE fr.name1
      d0 == IF fr.name0 # NULL THEN UNOPENED ELSE NONEXISTENT
      d1 == IF fr.name1 # NULL THEN UNOPENED ELSE NONEXISTENT
      f0 == IF ~fr.parent THEN n0
            ELSE file_name_concat(Parent.file[0].name, n0)
      f1 == IF ~fr.parent THEN n1
            ELSE file_name_concat(Parent.file[1].name, n1)
  IN [fr EXCEPT !.name0 = n0, !.name1 = n1,
                !.file = [f \in {0, 1} |->
                            [name |-> IF f = 0 THEN f0 ELSE f1,
                             desc |-> IF f = 0 THEN d0 ELSE d1,
                             stat |-> ZeroStat]],
                !.pc = "stat0"]

\* Lines 1067-1079, then 1081-1111.  The condition is evaluated left to
\* right, so an option is read only when the names before it leave the
\* outcome open.
Enter ==
  /\ Running /\ Top.pc = "enter"
  /\ LET fr == Top IN
     IF fr.name0 # NULL /\ fr.name1 # NULL
     THEN Step(Named(fr), opt)
     ELSE \E P \in opt.unidirectional_new_file :
            LET o1 == [opt EXCEPT !.unidirectional_new_file = {P}] IN
            IF P /\ fr.name1 # NULL
            THEN Step(Named(fr), o1)
            ELSE \E N \in o1.new_file :
                   LET o2 == [o1 EXCEPT !.new_file = {N}] IN
                   IF N THEN Step(Named(fr), o2) ELSE EarlyOnlyIn(fr, o2)

(* ---- lines 1113-1146: stat the files ---- *)

\* The inode a freshly resolved name gets, relative to the other side of
\* the pair: the other side's inode when the two have the same type and
\* mode, or another one.  The first side resolved gets inode 1.
InoChoices(k, other) ==
  IF other.ino = 0 THEN {1}
  ELSE (IF k.type = other.type /\ k.perm = other.perm
        THEN {other.ino} ELSE {}) \cup {3 - other.ino}

\* What stat or lstat (nd) leaves in the buffer on success.  One inode has
\* one size, unless the other side is standard input read part of the way.
StatResults(nd, other) ==
  { MkStat(p[1], p[2], 1) :
      p \in { q \in Kinds \X {1, 2} :
                /\ (nd \/ q[1].type # "lnk")
                /\ q[2] \in InoChoices(q[1], other)
                /\ (q[2] = other.ino =>
                      (q[1].size = other.size \/ other.mtime = Now)) } }

\* What fstat (STDIN_FILENO) leaves in the buffer on success.
FstatResults(other) ==
  { MkStat(p[1], p[2], 1) :
      p \in { q \in Kinds \X {1, 2} :
                /\ q[1].type # "lnk"
                /\ q[2] \in InoChoices(q[1], other) } }

SetSlot(fr, f, desc, st) ==
  [fr EXCEPT !.file[f].desc = desc, !.file[f].stat = st]

\* A marking test that forgets to look at parent.
MarkCondAnyLevel(file, f, parent, N, P) ==
  /\ (N \/ (f = 0 /\ P))
  /\ IF file[f].desc = UNOPENED
     THEN /\ S_ISREG(file[f].stat)
          /\ file[f].stat.perm = 0
          /\ file[f].stat.size = 0
     ELSE /\ (file[f].desc = ERRNO_ENCODE(ENOENT)
              \/ file[f].desc = ERRNO_ENCODE(EBADF))
          /\ (file[1 - f].desc = UNOPENED
              \/ file[1 - f].desc = STDIN_FILENO)

\* Lines 1153-1164, one iteration: is slot f to be marked nonexistent?
MarkCond(file, f, parent, N, P) ==
  /\ (N \/ (f = 0 /\ P))
  /\ IF file[f].desc = UNOPENED
     THEN /\ S_ISREG(file[f].stat)
          /\ file[f].stat.perm = 0
          /\ file[f].stat.size = 0
     ELSE /\ (file[f].desc = ERRNO_ENCODE(ENOENT)
              \/ file[f].desc = ERRNO_ENCODE(EBADF))
          /\ ~parent
          /\ (file[1 - f].desc = UNOPENED
              \/ file[1 - f].desc = STDIN_FILENO)

Mark1(file, f, parent, N, P) ==
  IF MarkCond(file, f, parent, N, P)
  THEN [file EXCEPT ![f].desc = NONEXISTENT] ELSE file

\* Lines 1153-1164: slot 0 first, then slot 1.
MarkNonexistent(file, parent, N, P) ==
  Mark1(Mark1(file, 0, parent, N, P), 1, parent, N, P)

\* A slot that is zeroed and gets no mode.
ZeroOnly1(file, f) ==
  IF file[f].desc = NONEXISTENT
  THEN [file EXCEPT ![f].stat = ZeroStat]
  ELSE file

\* Lines 1166-1170, one iteration.
CopyMode1(file, f) ==
  IF file[f].desc = NONEXISTENT
  THEN [file EXCEPT ![f].stat =
          [ZeroStat EXCEPT !.type = file[1 - f].stat.type,
                           !.perm = file[1 - f].stat.perm]]
  ELSE file

CopyModes(file) == CopyMode1(CopyMode1(file, 0), 1)

\* A report that prints the error and lets the comparison go on.
ReportErrorOnly(fr, f) ==
  IF 0 <= ERRNO_DECODE(fr.file[f].desc)
  THEN Emit(fr, Perror(fr.file[f].name, ERRNO_DECODE(fr.file[f].desc)))
  ELSE fr

\* Lines 1172-1179, one iteration.
ReportError1(fr, f) ==
  IF 0 <= ERRNO_DECODE(fr.file[f].desc)
  THEN [Emit(fr, Perror(fr.file[f].name, ERRNO_DECODE(fr.file[f].desc)))
          EXCEPT !.status = EXIT_TROUBLE]
  ELSE fr

ReportErrors(fr) == ReportError1(ReportError1(fr, 0), 1)

\* A test that forgets to look at parent.
DirFileCondAnyLevel(fr) ==
  fr.status = EXIT_SUCCESS /\ DIR_P(fr, 0) # DIR_P(fr, 1)

\* Line 1181: a root-level pair of which exactly one side is a directory.
DirFileCond(fr) ==
  fr.status = EXIT_SUCCESS /\ ~fr.parent /\ DIR_P(fr, 0) # DIR_P(fr, 1)

\* Lines 1148-1181 for given -N and -P.  at1148 is history: the two slots
\* as the stat loop left them.
Resolved(fr, N, P) ==
  LET fr1 == ReportErrors(
               [fr EXCEPT !.at1148 = <<fr.file[0], fr.file[1]>>,
                          !.file =
                  CopyModes(MarkNonexistent(fr.file, fr.parent, N, P))])
  IN [fr1 EXCEPT !.pc = IF DirFileCond(fr1) THEN "dirfile" ELSE "classify"]

\* Lines 1148-1181.  When no slot can be marked whatever -N and -P are,
\* neither option is drawn; else new_file || (f == 0 &&
\* unidirectional_new_file) is followed: -P counts only when -N is off.
Resolve(fr, o) ==
  LET rs == { Resolved(fr, N, P) : N \in o.new_file,
                                   P \in o.unidirectional_new_file } IN
  IF Cardinality(rs) = 1
  THEN Step(CHOOSE r \in rs : TRUE, o)
  ELSE \E N \in o.new_file :
         LET o1 == [o EXCEPT !.new_file = {N}] IN
         IF N THEN Step(Resolved(fr, TRUE, FALSE), o1)
         ELSE \E P \in o1.unidirectional_new_file :
                Step(Resolved(fr, FALSE, P),
                     [o1 EXCEPT !.unidirectional_new_file = {P}])

\* A stat loop that gives up at the first error.
AfterStatFailFast(fr, f, o) ==
  IF f = 0 /\ 0 > ERRNO_DECODE(fr.file[0].desc)
  THEN Step([fr EXCEPT !.pc = "stat1"], o) ELSE Resolve(fr, o)

\* The end of an iteration of the stat loop: the next slot, or line 1148.
AfterStat(fr, f, o) ==
  IF f = 0 THEN Step([fr EXCEPT !.pc = "stat1"], o) ELSE Resolve(fr, o)

\* Lines 1120-1139: the name is "-".
StatStdin(fr, f, o) ==
  LET fr1 == Did(fr, Ev("fstat", f)) IN
  IF ~stdin_open
  THEN AfterStat(SetSlot(fr1, f, ERRNO_ENCODE(EBADF), fr.file[f].stat), f, o)
  ELSE \E st \in FstatResults(fr.file[1 - f].stat) :
         IF S_ISREG(st)
         THEN \/ \E pos \in SeekPositions :
                   AfterStat(SetSlot(fr1, f, STDIN_FILENO,
                               [st EXCEPT !.size = Max(0, st.size - pos),
                                          !.mtime = Now]), f, o)
              \/ AfterStat(SetSlot(fr1, f, ERRNO_ENCODE(ESPIPE),
                                   [st EXCEPT !.mtime = Now]), f, o)
         ELSE AfterStat(SetSlot(fr1, f, STDIN_FILENO,
                                [st EXCEPT !.mtime = Now]), f, o)

\* A run that calls lstat whatever no_dereference_symlinks is.
SawLstat(o, st) == o

\* no_dereference_symlinks after a stat that gave st: lstat and stat give
\* the same answers except that only lstat can find a symbolic link.
SawStat(o, st) ==
  IF S_ISLNK(st) THEN [o EXCEPT !.no_dereference_symlinks = {TRUE}] ELSE o

\* Lines 1140-1144: stat or lstat of the name.  A failing call leaves the
\* buffer as it was.
StatName(fr, f, o) ==
  LET fr1 == Did(fr, Ev("stat", f)) IN
  \/ \E st \in StatResults(TRUE \in o.no_dereference_symlinks,
                            fr.file[1 - f].stat) :
       AfterStat(SetSlot(fr1, f, UNOPENED, st), f, SawStat(o, st))
  \/ \E e \in StatErrnos :
       AfterStat(SetSlot(fr1, f, ERRNO_ENCODE(e), fr.file[f].stat), f, o)

\* Lines 1115-1146, iteration f; after the second one, lines 1148-1181.
StatFile(f) ==
  /\ Running /\ Top.pc = (IF f = 0 THEN "stat0" ELSE "stat1")
  /\ LET fr == Top IN
     IF fr.file[f].desc = NONEXISTENT
     THEN AfterStat(fr, f, opt)
     ELSE IF f = 1 /\ file_name_cmp_eq(fr.file[f].name, fr.file[0].name)
     THEN AfterStat(SetSlot(fr, f, fr.file[0].desc, fr.file[0].stat), f, opt)
     ELSE IF fr.file[f].name = <<"-">>
     THEN StatStdin(fr, f, opt)
     ELSE StatName(fr, f, opt)

Stat0 == StatFile(0)
Stat1 == StatFile(1)

(* ---- lines 1181-1202: a directory named with a file ---- *)

DirFile ==
  /\ Running /\ Top.pc = "dirfile"
  /\ LET fr == Top
         fnm_arg == IF DIR_P(fr, 0) THEN 1 ELSE 0
         dir_arg == 1 - fnm_arg
         fnm == fr.file[fnm_arg].name
         dir == fr.file[dir_arg].name
         filename == file_name_concat(dir, last_component(fnm))
         fr1 == [fr EXCEPT !.file[dir_arg].name = filename,
                           !.pc = "classify"]
     IN IF fnm = <<"-">>
        THEN Abort("cannot compare '-' to a directory", opt)
        ELSE LET fr2 == Did(fr1, Ev("stat", dir_arg)) IN
             \/ \E st \in StatResults(TRUE \in opt.no_dereference_symlinks,
                                      fr.file[fnm_arg].stat) :
                  Step([fr2 EXCEPT !.file[dir_arg].stat = st],
                       SawStat(opt, st))
             \/ \E e \in StatErrnos :
                  Step([Emit(fr2, Perror(filename, e))
                          EXCEPT !.status = EXIT_TROUBLE], opt)

(* ---- lines 1204-1360: what to do with the pair ---- *)

\* A same-file test that leaves the attributes out.
SameInode(fr) ==
  /\ fr.file[0].desc # NONEXISTENT
  /\ fr.file[1].desc # NONEXISTENT
  /\ same_file(fr.file[0].stat, fr.file[1].stat)

\* Lines 1210-1214.
SameFiles(fr) ==
  /\ fr.file[0].desc # NONEXISTENT
  /\ fr.file[1].desc # NONEXISTENT
  /\ same_file(fr.file[0].stat, fr.file[1].stat)
  /\ same_file_attributes(fr.file[0].stat, fr.file[1].stat)

RegOrLnk(st) == S_ISREG(st) \/ S_ISLNK(st)

\* A test that holds special files apart at every level.
NotComparableAnyLevel(fr) ==
  \/ DIR_P(fr, 0) \/ DIR_P(fr, 1)
  \/ ~(RegOrLnk(fr.file[0].stat) /\ RegOrLnk(fr.file[1].stat))

\* A test that forgets the special files of a nested pair.
EitherIsDir(fr) == DIR_P(fr, 0) \/ DIR_P(fr, 1)

\* Lines 1232-1237.
NotComparable(fr) ==
  \/ DIR_P(fr, 0) \/ DIR_P(fr, 1)
  \/ (fr.parent /\ ~(RegOrLnk(fr.file[0].stat) /\ RegOrLnk(fr.file[1].stat)))

\* A size test that lets an empty file through.
SizesDiffer(fr) ==
  /\ S_ISREG(fr.file[0].stat) /\ S_ISREG(fr.file[1].stat)
  /\ fr.file[0].stat.size # fr.file[1].stat.size

\* Lines 1314-1318, without the flag.
SizesTellApart(fr) ==
  /\ S_ISREG(fr.file[0].stat) /\ S_ISREG(fr.file[1].stat)
  /\ fr.file[0].stat.size # fr.file[1].stat.size
  /\ 0 < fr.file[0].stat.size
  /\ 0 < fr.file[1].stat.size

\* message5 ("File %s is a %s while file %s is a %s\n", ...)
IsAWhile(fr, l) ==
  Msg("is_a_while", LabelOrName(fr, l, 0), LabelOrName(fr, l, 1),
      file_type(fr.file[0].stat), file_type(fr.file[1].stat), 0)

\* Lines 1263-1270 and 1304-1311.
Mismatch(fr, o, rule) ==
  \E l \in o.file_label :
    Finish([Emit(fr, IsAWhile(fr, l))
              EXCEPT !.status = EXIT_FAILURE, !.rule = rule],
           [o EXCEPT !.file_label = {l}])

\* status = diff_dirs (&cmp, compare_files): the frame waits for the
\* directory walker.
CallDiffDirs(fr, o, rule) ==
  Step([Did(fr, Ev("diff_dirs", 0)) EXCEPT !.rule = rule, !.pc = "dirs"], o)

\* Lines 1218-1231.
BothDirs(fr, o) ==
  \E ifdef \in {st.output_style = "OUTPUT_IFDEF" : st \in o.style} :
    LET o1 == [o EXCEPT !.style =
                 {st \in @ : (st.output_style = "OUTPUT_IFDEF") = ifdef}] IN
    IF ifdef
    THEN Abort("-D option not supported with directories", o1)
    ELSE IF ~fr.parent
    THEN CallDiffDirs(fr, o1, "dirs")
    ELSE \E r \in o1.recursive :
           LET o2 == [o1 EXCEPT !.recursive = {r}] IN
           IF ~r
           THEN Finish([Emit(fr, Msg("common_subdirs", fr.file[0].name,
                                     fr.file[1].name, "", "", 0))
                          EXCEPT !.rule = "common"], o2)
           ELSE CallDiffDirs(fr, o2, "dirs")

\* Lines 1252-1257.
OnlyInSubdir(fr, o) ==
  IF ~fr.parent
  THEN Abort("assert (parent)", o)
  ELSE Finish(
         [Emit(fr, OnlyIn(
                 Parent.file[IF fr.file[0].desc = NONEXISTENT
                             THEN 1 ELSE 0].name, fr.name0))
            EXCEPT !.status = EXIT_FAILURE, !.rule = "only_in"], o)

\* Lines 1238-1258: one side is missing.  The condition of line 1241 is
\* evaluated left to right.
OneMissing(fr, o) ==
  IF ~(DIR_P(fr, 0) \/ DIR_P(fr, 1))
  THEN OnlyInSubdir(fr, o)
  ELSE \E r \in o.recursive :
         LET o1 == [o EXCEPT !.recursive = {r}] IN
         IF ~r THEN OnlyInSubdir(fr, o1)
         ELSE \E N \in o1.new_file :
                LET o2 == [o1 EXCEPT !.new_file = {N}] IN
                IF N THEN CallDiffDirs(fr, o2, "dirs_missing")
                ELSE \E P \in o2.unidirectional_new_file :
                       LET o3 == [o2 EXCEPT !.unidirectional_new_file = {P}]
                       IN IF P /\ fr.file[0].desc = NONEXISTENT
                          THEN CallDiffDirs(fr, o3, "dirs_missing")
                          ELSE OnlyInSubdir(fr, o3)

\* What xreadlink (name) can return: a link value, or NULL.  A slot marked
\* nonexistent names no symbolic link, so reading it fails.
LinkValues == {<<"t1">>, <<"t2">>}

XreadlinkResults(fr, f) ==
  (IF fr.file[f].desc = NONEXISTENT THEN {} ELSE LinkValues) \cup {NULL}

\* A test that takes equal link values for different ones.
STRNEQ(a, b) == a # b

\* STREQ (a, b)
STREQ(a, b) == a = b

\* Lines 1280-1299: xreadlink of both names, stopping at the first failure,
\* then the comparison of the two link values.
ReadLinks(fr, o) ==
  \E v0 \in XreadlinkResults(fr, 0) :
    LET fr0 == [Did(fr, Ev("readlink", 0))
                  EXCEPT !.link_value[1] = v0, !.rule = "symlinks"] IN
    IF v0 = NULL
    THEN Finish([Emit(fr0, Perror(fr.file[0].name, EACCES))
                   EXCEPT !.status = EXIT_TROUBLE], o)
    ELSE \E v1 \in XreadlinkResults(fr, 1) :
           LET fr1 == [Did(fr0, Ev("readlink", 1))
                         EXCEPT !.link_value[2] = v1] IN
           IF v1 = NULL
           THEN Finish([Emit(fr1, Perror(fr.file[1].name, EACCES))
                          EXCEPT !.status = EXIT_TROUBLE], o)
           ELSE IF ~STREQ(v0, v1)
           THEN Finish([Emit(fr1, Msg("symlinks_differ", fr.file[0].name,
                                      fr.file[1].name, "", "", 0))
                          EXCEPT !.status = EXIT_FAILURE], o)
           ELSE Finish(fr1, o)

\* Lines 1272-1312.
Symlinks(fr, o) ==
  \E nd \in o.no_dereference_symlinks :
    LET o1 == [o EXCEPT !.no_dereference_symlinks = {nd}] IN
    IF ~nd
    THEN Abort("assert (no_dereference_symlinks)", o1)
    ELSE IF S_ISLNK(fr.file[0].stat) /\ S_ISLNK(fr.file[1].stat)
    THEN ReadLinks(fr, o1)
    ELSE Mismatch(fr, o1, "symlink_mismatch")

\* Lines 1319-1322.
BinaryDiffer(fr, o) ==
  \E l \in o.file_label :
    Finish([Emit(fr, Msg("differ", LabelOrName(fr, l, 0),
                         LabelOrName(fr, l, 1), "", "", 0))
              EXCEPT !.status = EXIT_FAILURE, !.rule = "binary"],
           [o EXCEPT !.file_label = {l}])

\* Lines 1313-1323.  The flag decides something only when the sizes
\* tell the files apart.
BinaryOrContent(fr, o) ==
  IF SizesTellApart(fr)
  THEN \E b \in o.files_can_be_treated_as_binary :
         LET o1 == [o EXCEPT !.files_can_be_treated_as_binary = {b}] IN
         IF b THEN BinaryDiffer(fr, o1)
         ELSE Step([fr EXCEPT !.rule = "content", !.pc = "content"], o1)
  ELSE Step([fr EXCEPT !.rule = "content", !.pc = "content"], o)

\* Lines 1218-1323: the rules after the same-file shortcut.
Rules(fr, o) ==
  IF DIR_P(fr, 0) /\ DIR_P(fr, 1) THEN BothDirs(fr, o)
  ELSE IF NotComparable(fr)
  THEN IF fr.file[0].desc = NONEXISTENT \/ fr.file[1].desc = NONEXISTENT
       THEN OneMissing(fr, o)
       ELSE Mismatch(fr, o, "mismatch")
  ELSE IF S_ISLNK(fr.file[0].stat) \/ S_ISLNK(fr.file[1].stat)
  THEN Symlinks(fr, o)
  ELSE BinaryOrContent(fr, o)

\* A test with one marker wrong.
FirstNonexistentSecondUnopened(fr) ==
  fr.file[0].desc = NONEXISTENT /\ fr.file[1].desc = UNOPENED

\* Lines 1206-1207.
BothNonexistent(fr) ==
  fr.file[0].desc = NONEXISTENT /\ fr.file[1].desc = NONEXISTENT

\* Lines 1204-1217, then the rules above.  no_diff_means_no_output is read
\* only when same_files is true.  at1204 is history: the two descriptors
\* and the status when line 1204 is reached.
Classify ==
  /\ Running /\ Top.pc = "classify"
  /\ LET fr == [Top EXCEPT !.at1204 = <<Top.file[0].desc, Top.file[1].desc,
                                        Top.status>>] IN
     IF fr.status # EXIT_SUCCESS
     THEN Finish([fr EXCEPT !.rule = "failed"], opt)
     ELSE IF BothNonexistent(fr)
     THEN Finish([fr EXCEPT !.rule = "both_absent"], opt)
     ELSE IF SameFiles(fr)
     THEN \E nd \in {st.no_diff_means_no_output : st \in opt.style} :
            LET o1 == [opt EXCEPT !.style =
                         {st \in @ : st.no_diff_means_no_output = nd}] IN
            IF nd
            THEN Finish([fr EXCEPT !.same_files = TRUE, !.rule = "same"], o1)
            ELSE Rules([fr EXCEPT !.same_files = TRUE], o1)
     ELSE Rules(fr, opt)

(* ---- lines 1323-1360: open, compare and close ---- *)

\* What open (name, O_RDONLY) returns: the lowest free descriptor, or -1.
\* Descriptors 1 and 2 are in use; 0 is free once standard input is closed;
\* held is the descriptor slot 0 holds.
LowestFree(held, sin) ==
  IF ~sin /\ held # STDIN_FILENO THEN STDIN_FILENO
  ELSE IF held = 3 THEN 4 ELSE 3

OpenResults(held, sin) == {LowestFree(held, sin), -1}

\* A close of both slots that forgets they can share a descriptor.
ToCloseBoth(fr) ==
  (IF 0 <= fr.file[0].desc THEN <<0>> ELSE <<>>) \o
  (IF 0 <= fr.file[1].desc THEN <<1>> ELSE <<>>)

\* Lines 1351-1359: which descriptors are passed to close, in order.
ToClose(fr) ==
  (IF 0 <= fr.file[0].desc THEN <<0>> ELSE <<>>) \o
  (IF 0 <= fr.file[1].desc /\ fr.file[0].desc # fr.file[1].desc
   THEN <<1>> ELSE <<>>)

RECURSIVE CloseAll(_, _, _)
\* close of the slots in fs; bad is the set of slots whose close fails.
CloseAll(fr, fs, bad) ==
  IF fs = <<>> THEN fr
  ELSE LET f == Head(fs)
           fr1 == Did(fr, Ev("close", fr.file[f].desc))
           fr2 == IF f \in bad
                  THEN [Emit(fr1, Perror(fr.file[f].name, EBADF))
                          EXCEPT !.status = EXIT_TROUBLE]
                  ELSE fr1
       IN CloseAll(fr2, Tail(fs), bad)

\* Lines 1330-1334.
Open0(fr, r) ==
  IF fr.file[0].desc = UNOPENED
  THEN LET fr1 == Did([fr EXCEPT !.file[0].desc = r], Ev("open", 0)) IN
       IF r < 0
       THEN [Emit(fr1, Perror(fr.file[0].name, EACCES))
               EXCEPT !.status = EXIT_TROUBLE]
       ELSE fr1
  ELSE fr

\* Lines 1335-1342.
Open1(fr, r) ==
  IF fr.file[1].desc = UNOPENED
  THEN IF fr.same_files
       THEN [fr EXCEPT !.file[1].desc = fr.file[0].desc]
       ELSE LET fr1 == Did([fr EXCEPT !.file[1].desc = r], Ev("open", 1)) IN
            IF r < 0
            THEN [Emit(fr1, Perror(fr.file[1].name, EACCES))
                    EXCEPT !.status = EXIT_TROUBLE]
            ELSE fr1
  ELSE fr

\* Lines 1346-1347: diff_2_files reports EXIT_SUCCESS, EXIT_FAILURE or
\* EXIT_TROUBLE.
Diff2Files(fr, v) ==
  IF fr.status = EXIT_SUCCESS
  THEN [Did(fr, Ev("diff_2_files", 0)) EXCEPT !.status = v]
  ELSE fr

\* Is descriptor STDIN_FILENO still open after the closes of fr?
StdinAfter(fr, sin) ==
  /\ \A i \in 1..Len(fr.io) : fr.io[i] # Ev("close", STDIN_FILENO)
  /\ (sin \/ \E i \in 1..Len(fr.io) :
               fr.io[i].op = "open" /\ fr.file[fr.io[i].f].desc = STDIN_FILENO)

\* Lines 1323-1360, then 1362-1380.
Content ==
  /\ Running /\ Top.pc = "content"
  /\ \E r0 \in OpenResults(-1, stdin_open) :
       LET fr0 == Open0(Top, r0) IN
       \E r1 \in OpenResults(fr0.file[0].desc, stdin_open) :
         LET fr1 == Open1(fr0, r1) IN
         \E v \in {EXIT_SUCCESS, EXIT_FAILURE, EXIT_TROUBLE} :
           LET fr2 == Diff2Files(fr1, v) IN
           \E bad \in SUBSET {0, 1} :
             LET fr3 == CloseAll(fr2, ToClose(fr2), bad) IN
             FinishIO(fr3, opt, StdinAfter(fr3, stdin_open))

(* ---- diff_dirs: the directory walker (interface of section 4.3) ---- *)

\* The sides a child name can be present on, given the sides of the
\* directory pair that exist: a missing directory has no entries.
ChildSides(fr) ==
  { sd \in {"both", "left", "right"} :
      /\ (sd \in {"both", "left"} => fr.file[0].desc # NONEXISTENT)
      /\ (sd \in {"both", "right"} => fr.file[1].desc # NONEXISTENT) }

\* One more name pair from the sorted union of the two listings:
\* handle_file (cmp, name or 0, name or 0).
DirsChild ==
  /\ Running /\ Top.pc = "dirs"
  /\ nested < MaxNested
  /\ \E sd \in ChildSides(Top) :
       LET nm == ChildName(Top.nkids + 1) IN
       /\ stack' = Append([stack EXCEPT ![Len(stack)].nkids = @ + 1],
                          NewFrame(TRUE,
                                   IF sd = "right" THEN NULL ELSE nm,
                                   IF sd = "left" THEN NULL ELSE nm))
       /\ nested' = nested + 1
       /\ UNCHANGED <<cmd, mainpc, aborted, opt, from_file, to_file,
                      argv, optind, exit_status, stdin_open, calls,
                      rootrets, flushes>>

\* A directory that cannot be read: diff_dirs reports it and returns
\* EXIT_TROUBLE without visiting any name.
DirsFail ==
  /\ Running /\ Top.pc = "dirs" /\ Top.nkids = 0
  /\ Finish([Emit(Top, Perror(Top.file[0].name, EACCES))
               EXCEPT !.val = EXIT_TROUBLE, !.status = EXIT_TROUBLE], opt)

\* The listing is exhausted: diff_dirs returns the greatest value seen.
DirsDone ==
  /\ Running /\ Top.pc = "dirs"
  /\ Finish([Top EXCEPT !.status = Top.val], opt)

\* if (val < v1) val = v1;
Fold(val, v1) == IF val < v1 THEN v1 ELSE val

\* A nested compare_files call returns to diff_dirs.
ReturnChild ==
  /\ Len(stack) > 1 /\ Top.pc = "done"
  /\ stack' = [SubSeq(stack, 1, Len(stack) - 1)
                 EXCEPT ![Len(stack) - 1].val = Fold(@, Top.status)]
  /\ UNCHANGED <<cmd, mainpc, aborted, opt, from_file, to_file,
                  argv, optind, exit_status, stdin_open, calls, rootrets,
                  flushes, nested>>

(* ------------------------------- main ---------------------------------- *)

\* Operand lists of at most n names.
RECURSIVE OperandLists(_)
OperandLists(n) ==
  IF n = 0 THEN {<<>>}
  ELSE OperandLists(n - 1) \cup
       { Append(l, x) : l \in {m \in OperandLists(n - 1) : Len(m) = n - 1},
                        x \in Operands }

\* The names of a command line in the order they appear.
CmdNames(c) ==
  (IF c.from = NULL THEN <<>> ELSE <<c.from>>) \o
  (IF c.to = NULL THEN <<>> ELSE <<c.to>>) \o c.operands

\* File names mean nothing by themselves: a command line is taken up to
\* renaming, "a" being the first file name on it and "b" the second.
InOrder(l) ==
  \A i \in 1..Len(l) :
    l[i] = <<"b">> => \E j \in 1..(i - 1) : l[j] = <<"a">>

CommandLines ==
  { c \in [from : {NULL} \cup Operands, to : {NULL} \cup Operands,
           operands : OperandLists(MaxOperands)] : InOrder(CmdNames(c)) }

\* Command lines with neither --from-file nor --to-file.
PlainCommandLines == { c \in CommandLines : c.from = NULL /\ c.to = NULL }

\* The command line names standard input.
NamesStdin(c) == \E i \in 1..Len(CmdNames(c)) : CmdNames(c)[i] = <<"-">>

InitWith(cmds, options) ==
  /\ \/ cmd \in { c \in cmds : ~NamesStdin(c) }
     \/ cmd \in { c \in cmds : NamesStdin(c) }
  /\ mainpc = "start"
  /\ aborted = ""
  /\ opt = options
  /\ from_file = NULL
  /\ to_file = NULL
  /\ argv = <<>>
  /\ optind = 0
  /\ exit_status = EXIT_SUCCESS
  /\ stdin_open = TRUE
  /\ stack = <<>>
  /\ nested = 0
  /\ calls = <<>>
  /\ rootrets = EXIT_SUCCESS
  /\ flushes = 0

\* Command lines with both --from-file and --to-file.
ContradictoryCommandLines ==
  { c \in CommandLines : c.from # NULL /\ c.to # NULL }

Init == InitWith(PlainCommandLines \cup ContradictoryCommandLines, AllOptions)

\* Command lines that name files only, with or without --from-file and
\* --to-file, and no other option.
LoopCommandLines == { c \in CommandLines : ~NamesStdin(c) }

NoOptions ==
  [recursive |-> {FALSE}, new_file |-> {FALSE},
   unidirectional_new_file |-> {FALSE},
   report_identical_files |-> {FALSE},
   no_dereference_symlinks |-> {FALSE},
   style |-> {[output_style |-> "OUTPUT_NORMAL",
               no_diff_means_no_output |-> TRUE]},
   files_can_be_treated_as_binary |-> {FALSE},
   file_label |-> {<<NULL, NULL>>}]

InitLoop == InitWith(LoopCommandLines, NoOptions)

\* Command lines that compare standard input with each of the named
\* operands: --from-file=- or --to-file=-.
StdinCommandLines ==
  { c \in CommandLines :
      /\ \/ c.from = <<"-">> /\ c.to = NULL
         \/ c.from = NULL /\ c.to = <<"-">>
      /\ \A i \in 1..Len(c.operands) : c.operands[i] # <<"-">> }

\* No option but, possibly, -N.
NewFileOption == [NoOptions EXCEPT !.new_file = BOOLEAN]

InitStdin == InitWith(StdinCommandLines, NewFileOption)

\* Lines 303-660: the options are decoded.  Conflicting style options end
\* the run in try_help; -v and --help print their text and return
\* EXIT_SUCCESS from main at once (lines 498-502 and 545-548).
DecodeOptions ==
  /\ mainpc = "start"
  /\ \/ /\ from_file' = cmd.from /\ to_file' = cmd.to
        /\ argv' = cmd.operands
        /\ mainpc' = "loop"
        /\ UNCHANGED <<aborted, exit_status>>
     \/ /\ mainpc' = "returned"
        /\ UNCHANGED <<aborted, exit_status, from_file, to_file, argv>>
     \/ /\ mainpc' = "exit"
        /\ aborted' = "conflicting output style options"
        /\ exit_status' = EXIT_TROUBLE
        /\ UNCHANGED <<from_file, to_file, argv>>
  /\ UNCHANGED <<cmd, opt, optind, stdin_open, stack, calls,
                  rootrets, flushes, nested>>

\* argc - optind
Left == Len(argv) - optind

Call(n0, n1) ==
  /\ stack' = <<NewFrame(FALSE, n0, n1)>>
  /\ calls' = Append(calls, <<n0, n1>>)
  /\ UNCHANGED <<cmd, mainpc, aborted, opt, from_file, to_file,
                  argv, optind, exit_status, stdin_open, rootrets, flushes,
                  nested>>

\* A usage error that exits with the exit_failure the program starts with.
UsageFailure(reason) ==
  /\ mainpc' = "exit"
  /\ aborted' = reason
  /\ exit_status' = EXIT_FAILURE
  /\ UNCHANGED <<cmd, opt, from_file, to_file, argv, optind,
                  stdin_open, stack, calls, rootrets, flushes, nested>>

\* fatal and try_help in main: exit (exit_failure), which line 291 has set
\* to EXIT_TROUBLE.
Usage(reason) ==
  /\ mainpc' = "exit"
  /\ aborted' = reason
  /\ exit_status' = EXIT_TROUBLE
  /\ UNCHANGED <<cmd, opt, from_file, to_file, argv, optind,
                  stdin_open, stack, calls, rootrets, flushes, nested>>

ToFlush ==
  /\ mainpc' = "flush"
  /\ UNCHANGED <<cmd, aborted, opt, from_file, to_file, argv,
                  optind, exit_status, stdin_open, stack, calls, rootrets,
                  flushes, nested>>

\* A loop that gives up once a pair has reported trouble.
MoreOperandsUntilTrouble(es) == optind < Len(argv) /\ es # EXIT_TROUBLE

\* for (; optind < argc; optind++) with exit_status es: the loop goes on
\* while operands are left.
MoreOperands(es) == optind < Len(argv)

\* Lines 754-780 up to the next call of compare_files.
MainLoop ==
  /\ mainpc = "loop" /\ ~Running
  /\ IF from_file # NULL
     THEN IF to_file # NULL
          THEN Usage("--from-file and --to-file both specified")
          ELSE IF MoreOperands(exit_status)
          THEN Call(from_file, argv[optind + 1])
          ELSE ToFlush
     ELSE IF to_file # NULL
     THEN IF MoreOperands(exit_status)
          THEN Call(argv[optind + 1], to_file)
          ELSE ToFlush
     ELSE IF Left # 2
     THEN IF Left < 2 THEN Usage("missing operand")
          ELSE Usage("extra operand")
     ELSE IF calls = <<>>
     THEN Call(argv[optind + 1], argv[optind + 2])
     ELSE ToFlush

\* An aggregation that keeps the latest value.
AggregateLatest(es, status) == status

\* if (exit_status < status) exit_status = status;
Aggregate(es, status) == IF es < status THEN status ELSE es

\* A root-level compare_files call returns to main: lines 759-762,
\* 766-769 or 778.
ReturnRoot ==
  /\ Len(stack) = 1 /\ Top.pc = "done"
  /\ stack' = <<>>
  /\ rootrets' = Max(rootrets, Top.status)
  /\ IF from_file # NULL \/ to_file # NULL
     THEN /\ exit_status' = Aggregate(exit_status, Top.status)
          /\ optind' = optind + 1
     ELSE /\ exit_status' = Top.status
          /\ UNCHANGED optind
  /\ UNCHANGED <<cmd, mainpc, aborted, opt, from_file, to_file,
                  argv, stdin_open, calls, flushes, nested>>

\* An exit that leaves the saved messages unprinted.
ExitUnflushed ==
  /\ mainpc = "flush"
  /\ mainpc' = "exit"
  /\ UNCHANGED <<cmd, aborted, opt, from_file, to_file, argv,
                  optind, exit_status, stdin_open, stack, calls, rootrets,
                  flushes, nested>>

\* Lines 782-786: print_message_queue, check_stdout, exit.
MainExit ==
  /\ mainpc = "flush"
  /\ mainpc' = "exit"
  /\ flushes' = flushes + 1
  /\ UNCHANGED <<cmd, aborted, opt, from_file, to_file, argv,
                  optind, exit_status, stdin_open, stack, calls, rootrets,
                  nested>>

Next ==
  \/ DecodeOptions
  \/ MainLoop
  \/ MainExit
  \/ Enter
  \/ Stat0
  \/ Stat1
  \/ DirFile
  \/ Classify
  \/ Content
  \/ DirsChild
  \/ DirsFail
  \/ DirsDone
  \/ ReturnChild
  \/ ReturnRoot

Spec == Init /\ [][Next]_vars

SpecLoop == InitLoop /\ [][Next]_vars

SpecStdin == InitStdin /\ [][Next]_vars

(* ------------------------- the operand loop ---------------------------- *)

\* The root-level calls a command line with --from-file or --to-file asks
\* for, in order.
ExpectedCalls(c) ==
  [i \in 1..Len(c.operands) |->
     IF c.from # NULL THEN <<c.from, c.operands[i]>>
     ELSE <<c.operands[i], c.to>>]

\* main reached exit (exit_status) at line 786: no fatal error and no usage
\* error ended the run before.
ExitedFromMain == mainpc = "exit" /\ aborted = ""

C2_EveryOperandOnce ==
  (cmd.from # NULL \/ cmd.to # NULL) /\ aborted = "" =>
    /\ Len(calls) <= Len(cmd.operands)
    /\ calls = SubSeq(ExpectedCalls(cmd), 1, Len(calls))
    /\ (mainpc \in {"flush", "exit"} => calls = ExpectedCalls(cmd))

\* The first of two operands gave EXIT_TROUBLE and the second one was
\* compared all the same.
C2_Witness ==
  /\ cmd.to # NULL /\ Len(cmd.operands) = 2
  /\ exit_status = EXIT_TROUBLE /\ aborted = ""
  /\ Len(calls) = 2 /\ Len(stack) = 1 /\ Top.pc = "done"

(* ---------------------- compare_files at its return -------------------- *)

\* The innermost compare_files call is about to return.
Returned == Running /\ Top.pc = "done"

\* The system calls of a frame with an operation in ops.
Touched(fr, ops) == \E i \in 1..Len(fr.io) : fr.io[i].op \in ops

\* The messages of one kind a frame emitted, in order.
MsgsOfKind(fr, kind) == SelectSeq(fr.msgs, LAMBDA m : m.kind = kind)

\* Slot f of the frame was absent after resolution: no name was given for
\* it, or it was marked nonexistent before line 1204.
Absent(fr, f) ==
  \/ fr.arg[f + 1] = NULL
  \/ (fr.at1204 # <<>> /\ fr.at1204[f + 1] = NONEXISTENT)

\* Slot f resolved without error and was not absent at line 1204.
Present(fr, f) ==
  /\ fr.at1204 # <<>>
  /\ fr.at1204[f + 1] \in {UNOPENED, STDIN_FILENO}

\* The option is known to be set, or known to be clear: the run has read
\* it.  CanBeSet and CanBeClear hold as well while the option is open, the
\* state then standing for the runs with either value.
IsSet(values) == values = {TRUE}
IsClear(values) == values = {FALSE}
CanBeSet(values) == TRUE \in values
CanBeClear(values) == FALSE \in values

\* no_diff_means_no_output is known to hold, or can hold.
NoDiffMeansNoOutput == \A st \in opt.style : st.no_diff_means_no_output
CanBeNoDiffMeansNoOutput ==
  \E st \in opt.style : st.no_diff_means_no_output

\* The identical-files report of the frame under the labels l.
IdenticalMsg(fr, l) ==
  Msg("identical", LabelOrName(fr, l, 0), LabelOrName(fr, l, 1), "", "", 0)

\* C3 as stated: a pair with both slots absent returns success and emits
\* no message at all, whatever the options are.
C3_Original ==
  Returned /\ Absent(Top, 0) /\ Absent(Top, 1) =>
    Top.status = EXIT_SUCCESS /\ Top.msgs = <<>>

\* C3: a pair with both slots absent returns success without a system
\* call after resolution, and emits no message, except that with
\* report_identical_files set it emits the one message "Files A and B are
\* identical".
C3_BothAbsent ==
  Returned /\ Absent(Top, 0) /\ Absent(Top, 1) =>
    /\ Top.status = EXIT_SUCCESS
    /\ ~Touched(Top, {"open", "diff_2_files", "diff_dirs", "readlink"})
    /\ Cardinality(opt.report_identical_files) = 1
    /\ IF IsSet(opt.report_identical_files)
       THEN /\ Cardinality(opt.file_label) = 1
            /\ \A l \in opt.file_label : Top.msgs = <<IdenticalMsg(Top, l)>>
       ELSE Top.msgs = <<>>

\* Both slots were absent and the identical-files report was printed.
C3_Witness ==
  /\ Returned /\ Absent(Top, 0) /\ Absent(Top, 1)
  /\ Len(Top.msgs) = 1 /\ Top.msgs[1].kind = "identical"

\* Exactly one slot of the frame was absent; PresentSide is the other one.
OneAbsent(fr) == Absent(fr, 0) # Absent(fr, 1)
PresentSide(fr) == IF Absent(fr, 0) THEN 1 ELSE 0

\* The base name a nested call was given.
BaseName(fr) == IF fr.arg[1] # NULL THEN fr.arg[1] ELSE fr.arg[2]

\* The one message C4 asks for: the parent's directory on the side where
\* the name exists, and the base name.
OnlyInExpected(fr, par) == OnlyIn(par.file[PresentSide(fr)].name, BaseName(fr))

\* C4 as stated: every nested pair with exactly one side absent returns
\* EXIT_FAILURE with exactly one "Only in" message, whatever the options
\* and the type of the present entity are.
C4_Original ==
  Returned /\ Top.parent /\ OneAbsent(Top) =>
    /\ Top.status = EXIT_FAILURE
    /\ MsgsOfKind(Top, "only_in") = <<OnlyInExpected(Top, Parent)>>

\* The new-file options do not cover the missing name of the frame:
\* new_file is clear, and unidirectional_new_file is clear or the name is
\* missing on the right.
PolicyOff(fr) ==
  /\ fr.arg[1] = NULL \/ fr.arg[2] = NULL
  /\ CanBeClear(opt.new_file)
  /\ (CanBeClear(opt.unidirectional_new_file) \/ fr.arg[2] = NULL)

\* The present side of the frame resolved to something that is neither a
\* regular file, nor a symbolic link, nor a directory.
PresentIsSpecial(fr) ==
  LET st == fr.file[PresentSide(fr)].stat IN
  /\ Present(fr, PresentSide(fr))
  /\ ~S_ISREG(st) /\ ~S_ISLNK(st) /\ ~S_ISDIR(st)

\* C4: a nested pair with exactly one side absent returns EXIT_FAILURE
\* with the one message "Only in <dir>: <name>", <dir> being the parent's
\* directory on the side where the name exists, when the new-file options
\* do not cover the missing name, or when the present entity is neither a
\* regular file, nor a symbolic link, nor a directory.
C4_OnlyIn ==
  Returned /\ Top.parent /\ OneAbsent(Top)
    /\ (PolicyOff(Top) \/ PresentIsSpecial(Top)) =>
    /\ Top.status = EXIT_FAILURE
    /\ Top.msgs = <<OnlyInExpected(Top, Parent)>>
    /\ ~Touched(Top, {"open", "diff_2_files", "diff_dirs", "readlink"})

\* A name missing on the left, not covered by the new-file options, was
\* reported as being only in the right directory.
C4_Witness ==
  /\ Returned /\ Top.parent /\ Top.arg[1] = NULL /\ PolicyOff(Top)
  /\ Top.msgs = <<OnlyIn(Parent.file[1].name, Top.arg[2])>>
  /\ Parent.file[0].name # Parent.file[1].name

\* The frame returned success and made no system call after resolving its
\* two sides.
WithoutReading(fr) ==
  /\ fr.status = EXIT_SUCCESS
  /\ ~Touched(fr, {"open", "diff_2_files", "diff_dirs", "readlink"})

\* The frame took the shortcut of lines 1209-1217: it returned success
\* without reading although a side was present, and it is not the pair of
\* subdirectories that is reported and left alone.
TookShortcut(fr) ==
  /\ WithoutReading(fr)
  /\ ~(Absent(fr, 0) /\ Absent(fr, 1))
  /\ MsgsOfKind(fr, "common_subdirs") = <<>>

\* Both sides are present and are one file with the same attributes.
SamePhysicalFile(fr) ==
  /\ Present(fr, 0) /\ Present(fr, 1)
  /\ same_file(fr.file[0].stat, fr.file[1].stat)
  /\ same_file_attributes(fr.file[0].stat, fr.file[1].stat)

\* C5 as stated: the shortcut is taken exactly when both sides are present
\* regular files that are one file with the same attributes and
\* no_diff_means_no_output holds; it is never taken when
\* report_identical_files is set and never for two directories.
C5_Original ==
  Returned =>
    /\ TookShortcut(Top) <=>
         /\ SamePhysicalFile(Top) /\ CanBeNoDiffMeansNoOutput
         /\ S_ISREG(Top.file[0].stat) /\ S_ISREG(Top.file[1].stat)
    /\ TookShortcut(Top) =>
         /\ ~IsSet(opt.report_identical_files)
         /\ ~(DIR_P(Top, 0) /\ DIR_P(Top, 1))

\* C5: the shortcut is taken exactly when both sides are present and are
\* one file (equal device and inode) with equal attributes, whatever its
\* type, and no_diff_means_no_output holds; report_identical_files does
\* not prevent it: when set, and slot 0 is no directory, the report is
\* printed without the files being read.
C5_Shortcut ==
  Returned =>
    /\ TookShortcut(Top) <=>
         (SamePhysicalFile(Top) /\ CanBeNoDiffMeansNoOutput)
    /\ TookShortcut(Top) => NoDiffMeansNoOutput
    /\ TookShortcut(Top) /\ ~DIR_P(Top, 0) =>
         /\ Cardinality(opt.report_identical_files) = 1
         /\ IF IsSet(opt.report_identical_files)
            THEN \A l \in opt.file_label :
                   Top.msgs = <<IdenticalMsg(Top, l)>>
            ELSE Top.msgs = <<>>
    /\ TookShortcut(Top) /\ DIR_P(Top, 0) => Top.msgs = <<>>

\* Two names of one regular file took the shortcut with
\* report_identical_files set.
C5_Witness ==
  /\ Returned /\ TookShortcut(Top)
  /\ Top.file[0].name # Top.file[1].name
  /\ S_ISREG(Top.file[0].stat)
  /\ IsSet(opt.report_identical_files)

\* The frame resolved both sides without error and no rule before the
\* binary fast path applied: it went on to line 1313.
ReachedBinary(fr) == fr.rule \in {"binary", "content"}

\* The message of the binary fast path under the labels l.
DifferMsg(fr, l) ==
  Msg("differ", LabelOrName(fr, l, 0), LabelOrName(fr, l, 1), "", "", 0)

\* Both sides are regular files whose recorded sizes are different and
\* both greater than zero.
RegularOfDifferentSizes(fr) ==
  /\ S_ISREG(fr.file[0].stat) /\ S_ISREG(fr.file[1].stat)
  /\ fr.file[0].stat.size # fr.file[1].stat.size
  /\ fr.file[0].stat.size > 0 /\ fr.file[1].stat.size > 0

\* C6: "Files A and B differ" is emitted, with EXIT_FAILURE and without
\* open or diff_2_files, exactly when no earlier rule applies,
\* files_can_be_treated_as_binary is set, and both sides are regular files
\* of different sizes greater than zero; every other pair that no earlier
\* rule takes is opened and, unless an open fails, passed to diff_2_files.
C6_BinaryFastPath ==
  Returned =>
    LET fired == MsgsOfKind(Top, "differ") # <<>> IN
    /\ fired <=> /\ ReachedBinary(Top)
                 /\ CanBeSet(opt.files_can_be_treated_as_binary)
                 /\ RegularOfDifferentSizes(Top)
    /\ fired => /\ IsSet(opt.files_can_be_treated_as_binary)
                /\ Top.status = EXIT_FAILURE
                /\ ~Touched(Top, {"open", "diff_2_files"})
                /\ \A l \in opt.file_label : Top.msgs = <<DifferMsg(Top, l)>>
    /\ ReachedBinary(Top) /\ ~fired =>
         \/ Touched(Top, {"diff_2_files"})
         \/ MsgsOfKind(Top, "perror") # <<>>

\* The fast path fired for a pair of regular files of sizes 1 and 2.
C6_Witness ==
  /\ Returned /\ MsgsOfKind(Top, "differ") # <<>>
  /\ Top.status = EXIT_FAILURE
  /\ RegularOfDifferentSizes(Top)

\* Slot f is a directory that was found by stat; the mode copied into an
\* absent slot does not count.
PresentDir(fr, f) == Present(fr, f) /\ DIR_P(fr, f)

\* diff_dirs was called once by the frame and its value was returned.
WalkedOnce(fr) ==
  /\ Len(SelectSeq(fr.io, LAMBDA e : e.op = "diff_dirs")) = 1
  /\ fr.status = fr.val

\* C7 as stated: "Common subdirectories" is emitted exactly for nested
\* pairs of two present directories with recursion disabled, with success
\* and without diff_dirs; every other pair that reaches the rule for two
\* directories has diff_dirs called once and returns its value.
C7_Original ==
  Returned =>
    /\ MsgsOfKind(Top, "common_subdirs") # <<>> =>
         /\ Top.parent /\ PresentDir(Top, 0) /\ PresentDir(Top, 1)
         /\ IsClear(opt.recursive)
         /\ Top.status = EXIT_SUCCESS
         /\ ~Touched(Top, {"diff_dirs"})
    /\ Top.rule \in {"common", "dirs"}
         /\ ~(Top.parent /\ IsClear(opt.recursive)) =>
         WalkedOnce(Top)

\* A nested pair of a directory and an absent side.
DirAndAbsent(fr) ==
  /\ fr.parent
  /\ \E f \in {0, 1} : Absent(fr, f) /\ PresentDir(fr, 1 - f)

\* C8 as stated: a nested pair of a directory and an absent side has
\* diff_dirs called and returns its value when recursion is enabled, and
\* else gets "Only in <dir>: <name>" with EXIT_FAILURE and never "Common
\* subdirectories".
C8_Original ==
  Returned /\ DirAndAbsent(Top) =>
    IF IsSet(opt.recursive)
    THEN WalkedOnce(Top)
    ELSE /\ Top.status = EXIT_FAILURE
         /\ Top.msgs = <<OnlyInExpected(Top, Parent)>>
         /\ MsgsOfKind(Top, "common_subdirs") = <<>>

\* The frame resolved slot f a second time: the root-level directory
\* operand gave way to the file in it named like the other operand (lines
\* 1181-1202).
Substituted(fr, f) ==
  \E i, j \in 1..Len(fr.io) :
    /\ i < j
    /\ fr.io[i] \in {Ev("stat", f), Ev("fstat", f)}
    /\ fr.io[j] = Ev("stat", f)

\* Every stat of the frame succeeded, the one of a substituted name
\* included, and no side is absent.
BothResolved(fr) ==
  /\ Present(fr, 0) /\ Present(fr, 1)
  /\ fr.at1204[3] = EXIT_SUCCESS

\* The type-mismatch message of the frame under the labels l.
TypeMismatchMsg(fr, l) ==
  Msg("is_a_while", LabelOrName(fr, l, 0), LabelOrName(fr, l, 1),
      file_type(fr.file[0].stat), file_type(fr.file[1].stat), 0)

\* The frame reported a type mismatch: that one message, EXIT_FAILURE, and
\* neither side opened, read or walked.
TypeMismatch(fr) ==
  /\ fr.status = EXIT_FAILURE
  /\ Cardinality(opt.file_label) = 1
  /\ \A l \in opt.file_label : fr.msgs = <<TypeMismatchMsg(fr, l)>>
  /\ ~Touched(fr, {"open", "diff_2_files", "diff_dirs", "readlink"})

\* Either side of the frame is neither a regular file nor a symbolic link.
EitherIsSpecial(fr) ==
  \E f \in {0, 1} :
    ~S_ISREG(fr.file[f].stat) /\ ~S_ISLNK(fr.file[f].stat)

\* C9 as stated: a pair, root-level or nested, whose operands resolve
\* without error to exactly one directory, neither side absent, gets the
\* type-mismatch message and EXIT_FAILURE without an open; and so does a
\* nested pair with a side that is neither a regular file nor a symbolic
\* link.
C9_Original ==
  Returned /\ BothResolved(Top) =>
    /\ (DIR_P(Top, 0) # DIR_P(Top, 1))
          \/ Substituted(Top, 0) \/ Substituted(Top, 1) =>
         TypeMismatch(Top)
    /\ Top.parent /\ EitherIsSpecial(Top) => TypeMismatch(Top)

\* The same-file shortcut does not apply to the frame.
NoShortcut(fr) ==
  ~(/\ same_file(fr.file[0].stat, fr.file[1].stat)
    /\ same_file_attributes(fr.file[0].stat, fr.file[1].stat)
    /\ NoDiffMeansNoOutput)

\* C9: a pair whose two sides resolve without error, neither absent, gets
\* the one type-mismatch message (with file_label[i] for a name when set)
\* and EXIT_FAILURE, without an open, when exactly one side is a directory
\* after a root-level directory operand has given way to the file in it
\* named like the other operand, and when the pair is nested, the
\* same-file shortcut does not apply, the sides are not both directories
\* and one of them is neither a regular file nor a symbolic link.
C9_TypeMismatch ==
  Returned /\ BothResolved(Top) =>
    /\ DIR_P(Top, 0) # DIR_P(Top, 1) => TypeMismatch(Top)
    /\ Top.parent /\ EitherIsSpecial(Top) /\ NoShortcut(Top)
         /\ ~(DIR_P(Top, 0) /\ DIR_P(Top, 1)) =>
         TypeMismatch(Top)

\* A root-level directory operand gave way to a directory inside it, and
\* the mismatch with the file on the other side was reported under -L.
C9_Witness ==
  /\ Returned /\ ~Top.parent /\ BothResolved(Top)
  /\ Substituted(Top, 0) /\ DIR_P(Top, 0) /\ ~DIR_P(Top, 1)
  /\ Top.status = EXIT_FAILURE
  /\ Len(Top.msgs) = 1 /\ Top.msgs[1].kind = "is_a_while"
  /\ Top.msgs[1].a = <<"L0">>

\* Link-following is disabled and the two sides of the frame resolved
\* without error to two symbolic links that the same-file shortcut leaves
\* to the rule of lines 1272-1312.
SymlinkPair(fr) ==
  /\ BothResolved(fr) /\ NoShortcut(fr)
  /\ CanBeSet(opt.no_dereference_symlinks)
  /\ S_ISLNK(fr.file[0].stat) /\ S_ISLNK(fr.file[1].stat)

\* Link-following is disabled and the frame resolved without error to one
\* symbolic link and one regular file.
SymlinkAndRegular(fr) ==
  /\ BothResolved(fr)
  /\ CanBeSet(opt.no_dereference_symlinks)
  /\ \E f \in {0, 1} :
       S_ISLNK(fr.file[f].stat) /\ S_ISREG(fr.file[1 - f].stat)

\* The xreadlink calls of the frame, in order.
Readlinks(fr) == SelectSeq(fr.io, LAMBDA e : e.op = "readlink")

DirectoryPair(fr) == S_ISDIR(fr.file[0].stat) /\ S_ISDIR(fr.file[1].stat)

\* The frame went past the entry test of lines 1067-1079 and reached the
\* end of the function.
ReachedTail(fr) == fr.rule # "early"

\* C11: "Files A and B are identical" is emitted, once and as the only
\* message, exactly when compare_files ends with EXIT_SUCCESS,
\* report_identical_files is set and the pair is not a directory pair; it
\* is never emitted with EXIT_FAILURE or EXIT_TROUBLE, nor for a directory
\* pair, descended or reported as "Common subdirectories".
C11_IdenticalReport ==
  Returned =>
    LET fr == Top
        said == MsgsOfKind(fr, "identical") # <<>>
    IN
    /\ said <=> /\ fr.status = EXIT_SUCCESS
                /\ CanBeSet(opt.report_identical_files)
                /\ ~DirectoryPair(fr)
    /\ said => /\ IsSet(opt.report_identical_files)
               /\ Cardinality(opt.file_label) = 1
               /\ \A l \in opt.file_label :
                    fr.msgs =
                      <<Msg("identical",
                            IF l[1] # NULL THEN l[1] ELSE fr.file[0].name,
                            IF l[2] # NULL THEN l[2] ELSE fr.file[1].name,
                            "", "", 0)>>
    /\ fr.status # EXIT_SUCCESS \/ DirectoryPair(fr) \/ fr.rule \in {"common", "dirs"} =>
         ~said

\* Two regular files were compared by content, found equal and reported
\* as identical under a label for the first one.
C11_Witness ==
  /\ Returned /\ Top.rule = "content" /\ Top.status = EXIT_SUCCESS
  /\ Touched(Top, {"diff_2_files"})
  /\ Len(Top.msgs) = 1 /\ Top.msgs[1].kind = "identical"
  /\ Top.msgs[1].a = <<"L0">>

(* ----------------------- slots marked nonexistent ----------------------- *)

\* The stat loop has run for the frame and the slots have been marked.
AfterMarking(fr) == fr.at1148 # <<>>

\* The descriptor of slot f when the marking loop has run: the one line
\* 1204 sees, a later open not counting.
MarkedDesc(fr, f) ==
  IF fr.at1204 # <<>> THEN fr.at1204[f + 1] ELSE fr.file[f].desc

\* Slot f was not absent after the stat loop and has been marked
\* nonexistent by lines 1153-1164.
Reclassified(fr, f) ==
  /\ AfterMarking(fr)
  /\ fr.at1148[f + 1].desc # NONEXISTENT
  /\ MarkedDesc(fr, f) = NONEXISTENT

\* (a): the stat of slot f succeeded and gave a regular file with no
\* permission bits and size zero.
EmptyInaccessible(fr, f) ==
  /\ fr.at1148[f + 1].desc \in {UNOPENED, STDIN_FILENO}
  /\ fr.at1148[f + 1].stat.type = "reg"
  /\ fr.at1148[f + 1].stat.perm = 0
  /\ fr.at1148[f + 1].stat.size = 0

\* The stat of slot f failed with ENOENT or EBADF.
NotFound(fr, f) ==
  fr.at1148[f + 1].desc \in {-3 - ENOENT, -3 - EBADF}

\* (b): the pair is root-level, the stat of slot f failed with ENOENT or
\* EBADF, and the stat of the other side succeeded.
MissingOperand(fr, f) ==
  /\ ~fr.parent
  /\ NotFound(fr, f)
  /\ fr.at1148[2 - f].desc \in {UNOPENED, STDIN_FILENO}

PolicyCovers(f) ==
  CanBeSet(opt.new_file) \/ (f = 0 /\ CanBeSet(opt.unidirectional_new_file))

\* (a) for a named file: standard input is never marked for being empty.
EmptyInaccessibleFile(fr, f) ==
  /\ fr.at1148[f + 1].desc = UNOPENED
  /\ EmptyInaccessible(fr, f)

\* (b) as the marking loop sees it, slot 0 first: the other side's stat
\* succeeded and the other side has not just been marked itself.
MissingOperandInTurn(fr, f) ==
  /\ MissingOperand(fr, f)
  /\ f = 1 => MarkedDesc(fr, 0) # NONEXISTENT

UsageErrors ==
  { "conflicting output style options",
    "--from-file and --to-file both specified",
    "missing operand", "extra operand" }

\* The fatal errors compare_files finds once it has resolved a pair.
CompareErrors ==
  { "cannot compare '-' to a directory",
    "-D option not supported with directories" }

SameName(fr) ==
  /\ AfterMarking(fr)
  /\ fr.arg[1] # NULL /\ fr.arg[2] # NULL
  /\ fr.file[0].name = fr.file[1].name

\* The stat or fstat of the name failed.
StatFailed(slot) == 0 <= -3 - slot.desc

\* The right slot took over what the stat loop left in the left slot, and
\* no stat or fstat was made for it.
TookOverLeft(fr) ==
  /\ fr.at1148[2] = fr.at1148[1]
  /\ \A i \in 1..Len(fr.io) : fr.io[i] \notin {Ev("stat", 1), Ev("fstat", 1)}

\* C14 as stated: when the right-hand name equals the left-hand name the
\* right slot takes over the left slot's descriptor and metadata without a
\* stat or fstat of its own, and a failure to resolve the name is reported
\* exactly once for the pair.
C14_Original ==
  Running /\ SameName(Top) =>
    /\ TookOverLeft(Top)
    /\ StatFailed(Top.at1148[1]) =>
         Len(MsgsOfKind(Top, "perror")) = 1

(* ------------------------- the saved messages -------------------------- *)

\* The run is over: main called exit, returned from the option loop, or
\* the process ended in fatal or try_help.
RunEnded == mainpc \in {"exit", "returned"}

\* Every root-level call the command line asks for has been made.
AllCallsMade ==
  IF cmd.from # NULL \/ cmd.to # NULL
  THEN calls = ExpectedCalls(cmd)
  ELSE calls = <<<<cmd.operands[1], cmd.operands[2]>>>>

Failed(fr, f) ==
  /\ AfterMarking(fr)
  /\ StatFailed(fr.at1148[f + 1])
  /\ MarkedDesc(fr, f) # NONEXISTENT

\* An open of the frame returned -1.
OpenFailed(fr) ==
  \E f \in {0, 1} : Ev("open", f) \in { fr.io[i] : i \in 1..Len(fr.io) }
                     /\ fr.file[f].desc < 0

\* An xreadlink of the frame returned NULL.
ReadlinkFailed(fr) ==
  \E f \in {0, 1} : Ev("readlink", f) \in { fr.io[i] : i \in 1..Len(fr.io) }
                     /\ fr.link_value[f + 1] = NULL

\* The errors of the two slots as lines 1172-1179 report them.
ResolutionErrors(fr) ==
  (IF Failed(fr, 0)
   THEN <<Msg("perror", fr.file[0].name, NULL, "", "",
              -3 - fr.at1148[1].desc)>> ELSE <<>>) \o
  (IF Failed(fr, 1)
   THEN <<Msg("perror", fr.file[1].name, NULL, "", "",
              -3 - fr.at1148[2].desc)>> ELSE <<>>)

\* C16: a pair with a Failed slot returns EXIT_TROUBLE; after the stat
\* loop it is not resolved again, opened, read, walked or compared, and
\* its only messages are the error reports of the failed slots.  Every
\* failed stat, open, xreadlink or close that compare_files reports makes
\* it return EXIT_TROUBLE, and no step of a call lowers its status.
C16_FailedIsTrouble ==
  /\ [](Returned =>
         /\ Failed(Top, 0) \/ Failed(Top, 1) =>
              /\ Top.status = EXIT_TROUBLE
              /\ ~Touched(Top, {"open", "close", "readlink", "diff_dirs",
                                "diff_2_files"})
              /\ ~Substituted(Top, 0) /\ ~Substituted(Top, 1)
              /\ Top.msgs = ResolutionErrors(Top)
         /\ \/ OpenFailed(Top) \/ ReadlinkFailed(Top)
            \/ MsgsOfKind(Top, "perror") # <<>> =>
              Top.status = EXIT_TROUBLE
         /\ OpenFailed(Top) \/ ReadlinkFailed(Top) =>
              MsgsOfKind(Top, "perror") # <<>>)
  /\ [][Running /\ Len(stack') = Len(stack) =>
          stack'[Len(stack)].status >= Top.status]_vars

\* The stat of the right slot failed with EACCES next to a resolved left
\* slot, and the pair returned EXIT_TROUBLE with that one report.
C16_Witness ==
  /\ Returned /\ ~Failed(Top, 0) /\ Failed(Top, 1)
  /\ Top.at1148[1].desc = UNOPENED
  /\ Top.status = EXIT_TROUBLE
  /\ Top.msgs = <<Msg("perror", Top.file[1].name, NULL, "", "", EACCES)>>

(* --------------------------- both slots resolved ------------------------ *)

\* The right slot has a name of its own: one was given and it is not the
\* left slot's name, whose result it would take over.
OwnName(fr) ==
  fr.arg[2] # NULL /\ fr.file[1].name # fr.file[0].name

\* C17: a failed stat of the left slot does not keep the right slot, when
\* it has a name of its own, from being resolved by a stat or fstat; and
\* when both slots have failed, the two errors are reported, left before
\* right, as the only messages of the pair, the status is EXIT_TROUBLE
\* when line 1204 is reached, and the pair returns EXIT_TROUBLE.
C17_NoFailFast ==
  Running /\ AfterMarking(Top) =>
    /\ StatFailed(Top.at1148[1]) /\ OwnName(Top) =>
         \E i \in 1..Len(Top.io) :
           Top.io[i] \in {Ev("stat", 1), Ev("fstat", 1)}
    /\ Failed(Top, 0) /\ Failed(Top, 1) =>
         /\ Top.msgs =
              <<Msg("perror", Top.file[0].name, NULL, "", "",
                    -3 - Top.at1148[1].desc),
                Msg("perror", Top.file[1].name, NULL, "", "",
                    -3 - Top.at1148[2].desc)>>
         /\ Top.status = EXIT_TROUBLE
         /\ Top.at1204 # <<>> => Top.at1204[3] = EXIT_TROUBLE
         /\ Top.rule \in {"", "failed"}

\* Two different names failed with different errors and both were
\* reported, the left one first.
C17_Witness ==
  /\ Returned /\ OwnName(Top)
  /\ Top.at1148[1].desc = -3 - ENOENT /\ Top.at1148[2].desc = -3 - EACCES
  /\ Len(Top.msgs) = 2
  /\ Top.msgs[1].a = Top.file[0].name /\ Top.msgs[1].e = ENOENT
  /\ Top.msgs[2].a = Top.file[1].name /\ Top.msgs[2].e = EACCES
  /\ Top.status = EXIT_TROUBLE

(* ----------------------------- descriptors ------------------------------ *)

\* The positions in the call record of the frame where e was done.
Positions(fr, e) == { i \in 1..Len(fr.io) : fr.io[i] = e }

\* compare_files opened slot f itself and the open succeeded.
OpenedHere(fr, f) ==
  Positions(fr, Ev("open", f)) # {} /\ fr.file[f].desc >= 0

\* C18: when a call that went into the content comparison returns, every
\* descriptor it opened has been passed to close exactly once, after the
\* opens and after diff_2_files, whatever the opens and diff_2_files
\* returned; a descriptor both slots hold is closed once; close is never
\* called with the -1 of a failed open; and diff_2_files is called only
\* when no open has failed.
C18_ClosedOnce ==
  Returned /\ Top.rule = "content" =>
    LET fr == Top IN
    /\ \A f \in {0, 1} :
         OpenedHere(fr, f) =>
           /\ Cardinality(Positions(fr, Ev("close", fr.file[f].desc))) = 1
           /\ \A i \in Positions(fr, Ev("close", fr.file[f].desc)) :
                \A j \in 1..Len(fr.io) :
                  fr.io[j].op \in {"open", "diff_2_files"} => j < i
    /\ fr.file[0].desc = fr.file[1].desc /\ fr.file[0].desc >= 0 =>
         Cardinality(Positions(fr, Ev("close", fr.file[0].desc))) = 1
    /\ \A i \in 1..Len(fr.io) : fr.io[i].op = "close" => fr.io[i].f >= 0
    /\ Touched(fr, {"diff_2_files"}) =>
         \A f \in {0, 1} :
           Positions(fr, Ev("open", f)) # {} => fr.file[f].desc >= 0

\* Two names of one file were compared by content through one descriptor,
\* which was closed once.
C18_Witness ==
  /\ Returned /\ Top.rule = "content" /\ Top.same_files
  /\ OpenedHere(Top, 0) /\ Top.file[1].desc = Top.file[0].desc
  /\ Touched(Top, {"diff_2_files"})
  /\ Cardinality(Positions(Top, Ev("close", Top.file[0].desc))) = 1

(* ---------------------------- standard input --------------------------- *)

\* A close of the frame was given a descriptor the frame did not open.
ClosedForeign(fr) ==
  \E i \in 1..Len(fr.io) :
    /\ fr.io[i].op = "close"
    /\ \A f \in {0, 1} : ~(OpenedHere(fr, f) /\ fr.file[f].desc = fr.io[i].f)

\* Slot f of a root-level frame is the operand "-".
IsStdin(fr, f) == ~fr.parent /\ fr.arg[f + 1] = <<"-">>

\* C19 as stated: compare_files closes only descriptors it opened in the
\* same call, standard input stays open, and in a run with several
\* root-level pairs the operand "-" is never Failed with EBADF nor Absent
\* in a later pair.
C19_Original ==
  /\ stdin_open
  /\ Running => ~ClosedForeign(Top)
  /\ Running /\ AfterMarking(Top) =>
       \A f \in {0, 1} :
         IsStdin(Top, f) =>
           /\ Top.at1148[f + 1].desc # -3 - EBADF
           /\ ~Reclassified(Top, f)

\* The divergence: the first pair closed standard input after comparing
\* it, and in the second pair the fstat of "-" failed with EBADF.
C19_StdinClosedByEarlierPair ==
  /\ Len(calls) = 2 /\ Running /\ AfterMarking(Top)
  /\ ~stdin_open
  /\ \E f \in {0, 1} : IsStdin(Top, f) /\ Top.at1148[f + 1].desc = -3 - EBADF

(* --------------------------- flushing stdout ---------------------------- *)

\* The last thing the frame did was fflush (stdout).
FlushedLast(fr) ==
  fr.io # <<>> /\ fr.io[Len(fr.io)] = Ev("fflush", 0)

\* C20 as stated: every compare_files call that returns EXIT_FAILURE or
\* EXIT_TROUBLE has flushed standard output before it returns, on every
\* return path; a call that returns EXIT_SUCCESS has not.
C20_Original ==
  Returned => (Top.status # EXIT_SUCCESS <=> FlushedLast(Top))

(* -------------------- a directory named with a file --------------------- *)

\* Both slots resolved without error, neither is absent, and exactly one
\* of them is a directory: SideOfDir is that one.
OneIsDir(fr) ==
  /\ \A f \in {0, 1} : fr.at1148[f + 1].desc \in {UNOPENED, STDIN_FILENO}
                       /\ MarkedDesc(fr, f) # NONEXISTENT
  /\ (fr.at1148[1].stat.type = "dir") # (fr.at1148[2].stat.type = "dir")
SideOfDir(fr) == IF fr.at1148[1].stat.type = "dir" THEN 0 ELSE 1

\* The frame is past lines 1181-1202.
PastSubstitution(fr) == AfterMarking(fr) /\ fr.pc # "dirfile"

\* <dir>/<basename of the other operand> for the directory on side d.
InDir(fr, d) ==
  fr.arg[d + 1] \o <<fr.arg[2 - d][Len(fr.arg[2 - d])]>>

\* The stat of the substituted path failed: the pair, which resolved
\* without error, reached line 1204 with a status other than success.
SubstitutedStatFailed(fr, d) ==
  /\ Substituted(fr, d)
  /\ (IF fr.at1204 # <<>> THEN fr.at1204[3] ELSE fr.status) # EXIT_SUCCESS

\* What C21 says of the frames that are past the substitution.
C21_Frames ==
  Running /\ PastSubstitution(Top) =>
    LET fr == Top
        d == SideOfDir(fr)
    IN
    /\ ~fr.parent /\ OneIsDir(fr) =>
         /\ Substituted(fr, d) /\ ~Substituted(fr, 1 - d)
         /\ fr.file[d].name = InDir(fr, d)
         /\ fr.file[1 - d].name = fr.arg[2 - d]
         /\ SubstitutedStatFailed(fr, d) =>
              /\ fr.status = EXIT_TROUBLE
              /\ fr.msgs # <<>> /\ fr.msgs[1] = Perror(InDir(fr, d), fr.msgs[1].e)
              /\ MarkedDesc(fr, d) # NONEXISTENT
              /\ ~Touched(fr, {"open", "readlink", "diff_dirs",
                               "diff_2_files"})
              /\ fr.pc = "done" => Len(fr.msgs) = 1
         /\ fr.pc = "done" /\ ~SubstitutedStatFailed(fr, d) =>
              /\ fr.rule # "dirs"
              /\ fr.file[d].stat.type = "reg"
                   /\ fr.file[1 - d].stat.type = "reg" =>
                     fr.rule \in {"same", "binary", "content"}
    /\ fr.parent \/ ~OneIsDir(fr) =>
         /\ ~Substituted(fr, 0) /\ ~Substituted(fr, 1)
         /\ \A f \in {0, 1} : fr.arg[f + 1] # NULL /\ ~fr.parent =>
                                fr.file[f].name = fr.arg[f + 1]

\* C21 as stated: a root-level pair whose operands resolve without error
\* to exactly one directory always has the directory replaced by
\* <dir>/<basename of the other operand>, that path stat'ed and the new
\* pair classified; a failure of that stat gives EXIT_TROUBLE and is not
\* promoted; nested pairs are never substituted.
C21_Original ==
  /\ C21_Frames
  /\ aborted # "cannot compare '-' to a directory"

\* C21: as stated, except that when the operand that is not a directory
\* is "-" the run ends in fatal ("cannot compare '-' to a directory")
\* before the substituted path is stat'ed.
C21_Substitution ==
  /\ C21_Frames
  /\ aborted = "cannot compare '-' to a directory" =>
       /\ exit_status = EXIT_TROUBLE /\ ~Running
       /\ \E i \in {1, 2} : calls[1][i] = <<"-">>

\* The stat of the substituted path failed and the pair returned
\* EXIT_TROUBLE, with -N possibly set.
C21_Witness ==
  /\ Returned /\ ~Top.parent /\ OneIsDir(Top)
  /\ SubstitutedStatFailed(Top, SideOfDir(Top))
  /\ Top.status = EXIT_TROUBLE
  /\ CanBeSet(opt.new_file)

(* ----------------------- swapping the operands ------------------------- *)

\* The pair of fr with its operands swapped, as the stat loop leaves it
\* when every path gets the stat result it got in fr.
SwapOperands(fr) ==
  [fr EXCEPT !.file = [f \in {0, 1} |-> fr.at1148[2 - f]],
             !.name0 = fr.name1, !.name1 = fr.name0,
             !.arg = <<fr.arg[2], fr.arg[1]>>,
             !.status = EXIT_SUCCESS, !.msgs = <<>>, !.at1204 = <<>>]

\* The severity the swapped pair returns, where lines 1148-1208 decide
\* it: a reported error skips the rule chain and returns EXIT_TROUBLE,
\* two Absent slots return EXIT_SUCCESS.  Other pairs go on to rules this
\* operator does not follow: it then answers with the severity of fr.
SwappedSeverity(fr) ==
  LET sw == Resolved(SwapOperands(fr), TRUE, FALSE) IN
  IF sw.status # EXIT_SUCCESS THEN sw.status
  ELSE IF \A f \in {0, 1} : sw.file[f].desc = NONEXISTENT THEN EXIT_SUCCESS
  ELSE fr.status

\* One operand does not exist and the other is a permission-less
\* zero-length regular file; f is the side of the missing one.
MissingAndEmptyInaccessible(fr, f) ==
  /\ fr.at1148[f + 1].desc = ERRNO_ENCODE(ENOENT)
  /\ fr.at1148[2 - f].desc = UNOPENED
  /\ fr.at1148[2 - f].stat.type = "reg"
  /\ fr.at1148[2 - f].stat.perm = 0
  /\ fr.at1148[2 - f].stat.size = 0

\* C22 as stated: under -N a root-level pair returns the severity that
\* the same two operands return in the other order, each path having the
\* same stat result in both; in particular when one operand is missing
\* and the other is a permission-less empty regular file.
C22_Original ==
  Returned /\ ~Top.parent /\ AfterMarking(Top) /\ IsSet(opt.new_file) =>
    Top.status = SwappedSeverity(Top)

\* The two orders of the named combination: the missing operand on the
\* right returns EXIT_TROUBLE, on the left EXIT_SUCCESS.
C22_OrderMatters ==
  Returned /\ ~Top.parent /\ AfterMarking(Top) /\ IsSet(opt.new_file) =>
    /\ MissingAndEmptyInaccessible(Top, 1) =>
         Top.status = EXIT_TROUBLE /\ SwappedSeverity(Top) = EXIT_SUCCESS
    /\ MissingAndEmptyInaccessible(Top, 0) =>
         Top.status = EXIT_SUCCESS /\ SwappedSeverity(Top) = EXIT_TROUBLE

(* --------------------- the metadata of an Absent slot ------------------- *)

\* The pair is past lines 1148-1170 and at least one slot is Absent.
HasAbsentSlot(fr) ==
  AfterMarking(fr) /\ \E f \in {0, 1} : MarkedDesc(fr, f) = NONEXISTENT

\* C23: in every pair that is past resolution with an Absent slot, the
\* two slots have the same file type, the Absent slot's metadata is zero
\* but for the mode, which is the other side's, and so its size is 0; the
\* pair is not one with exactly one directory (no substitution of lines
\* 1181-1202, no type-mismatch report, no walk from line 1246) and does
\* not take the binary fast path.
C23_AbsentMetadata ==
  Running /\ HasAbsentSlot(Top) =>
    LET fr == Top IN
    /\ fr.file[0].stat.type = fr.file[1].stat.type
    /\ \A f \in {0, 1} : MarkedDesc(fr, f) = NONEXISTENT =>
         /\ fr.file[f].stat.size = 0
         /\ fr.file[f].stat.ino = 0 /\ fr.file[f].stat.mtime = 0
         /\ fr.file[f].stat.perm = fr.file[1 - f].stat.perm
         /\ MarkedDesc(fr, 1 - f) # NONEXISTENT =>
              fr.file[1 - f].stat = fr.at1148[2 - f].stat
    /\ (fr.file[0].stat.type = "dir") = (fr.file[1].stat.type = "dir")
    /\ fr.pc # "dirfile" /\ ~Substituted(fr, 0) /\ ~Substituted(fr, 1)
    /\ fr.rule \notin {"mismatch", "symlink_mismatch", "dirs_missing",
                       "binary"}
    /\ MsgsOfKind(fr, "is_a_while") = <<>>
    /\ MsgsOfKind(fr, "differ") # <<>> => Touched(fr, {"diff_2_files"})

\* A pair of an Absent slot and a regular file of positive size returned
\* from the content rule, with the binary fast path possibly allowed.
C23_Witness ==
  /\ Returned /\ HasAbsentSlot(Top)
  /\ \E f \in {0, 1} :
       /\ MarkedDesc(Top, f) = NONEXISTENT
       /\ MarkedDesc(Top, 1 - f) = UNOPENED
       /\ Top.at1148[2 - f].stat.type = "reg"
       /\ Top.at1148[2 - f].stat.size > 0
       /\ Top.rule = "content"
       /\ Touched(Top, {"diff_2_files"})
       /\ CanBeSet(opt.files_can_be_treated_as_binary)

(* ------------------------- "Only in" and parent ------------------------- *)

\* The frames of the stack that have printed "Only in".
SaidOnlyIn == { i \in 1..Len(stack) : MsgsOfKind(stack[i], "only_in") # <<>> }

\* C24: every "Only in" message is printed by a call with a parent; no
\* root-level call has a null name, reaches the early one-sided return
\* or the "Only in" of the absent-side branch, and the run never
\* dereferences a null parent at line 1071 nor fails assert (parent).
C24_OnlyInHasParent ==
  /\ aborted \notin {"crash", "assert (parent)"}
  /\ \A i \in SaidOnlyIn : stack[i].parent /\ i > 1
  /\ \A i \in 1..Len(stack) :
       ~stack[i].parent =>
         /\ i = 1
         /\ stack[i].arg[1] # NULL /\ stack[i].arg[2] # NULL
         /\ stack[i].rule \notin {"early", "only_in"}
  /\ \A i \in 1..Len(calls) : calls[i][1] # NULL /\ calls[i][2] # NULL

\* A nested pair one side of which is Absent went through the absent-side
\* branch of line 1238 and printed "Only in".
C24_Witness ==
  /\ Returned /\ Top.parent
  /\ Top.rule = "only_in"
  /\ MsgsOfKind(Top, "only_in") # <<>>
  /\ \E f \in {0, 1} : MarkedDesc(Top, f) = NONEXISTENT

(* --------------------- symbolic links and lstat ------------------------- *)

\* The slots of the stack whose metadata has symbolic-link type.
LinkSlots ==
  { p \in (1..Len(stack)) \X {0, 1} : stack[p[1]].file[p[2]].stat.type = "lnk" }

\* The frames that took the symlink rule of lines 1272-1312.
SymlinkRuled ==
  { i \in 1..Len(stack) : stack[i].rule \in {"symlinks", "symlink_mismatch"}
                          \/ Touched(stack[i], {"readlink"}) }

\* C25: assert (no_dereference_symlinks) never fails: a slot has
\* symbolic-link type, however it was filled (lstat, fstat of standard
\* input, the copy of slot 0 for an equal name, the mode copied into an
\* Absent slot, the stat of a substituted path), only in a run where
\* no_dereference_symlinks is set, and so has every pair that took the
\* symlink rule.
C25_LinksOnlyWithLstat ==
  /\ aborted # "assert (no_dereference_symlinks)"
  /\ LinkSlots # {} => opt.no_dereference_symlinks = {TRUE}
  /\ SymlinkRuled # {} => opt.no_dereference_symlinks = {TRUE}

\* A pair took the symlink rule with an Absent slot that got its
\* symbolic-link type from the other side.
C25_Witness ==
  /\ Returned /\ Top.rule \in {"symlinks", "symlink_mismatch"}
  /\ opt.no_dereference_symlinks = {TRUE}
  /\ \E f \in {0, 1} :
       /\ MarkedDesc(Top, f) = NONEXISTENT
       /\ Top.file[f].stat.type = "lnk"
       /\ Top.at1148[2 - f].stat.type = "lnk"

====
